---- MODULE Spec2Model ----
(***************************************************************************)
(* Model of the condition correlation engine of the reversal-strategy      *)
(* signal server: the keyed map of PairState values (src/main.rs), the     *)
(* PairState methods (src/models.rs) and the request handler               *)
(* handle_signal (src/handlers.rs).                                        *)
(*                                                                         *)
(* Option<T> is modelled as a sequence of length 0 (None) or 1 (Some).     *)
(* A timestamp string is modelled by its shape (which of the two accepted  *)
(* layouts it has, whether it ends in 'Z') and the minute of the day it    *)
(* denotes; parse_time is computed on that shape.                          *)
(***************************************************************************)
EXTENDS Integers, Sequences, FiniteSets, TLC

VARIABLES
    pair_states,          \* AppState.pair_states: key -> PairState
    last,                 \* the last request and the response it got
    spawned,              \* the task the last request spawned, if any
    emitted_since_sweep,  \* per key: trade signals returned since the last processed sweep
    history,              \* the requests of a scripted run, in order
    lock,                 \* holder of the Mutex around pair_states: 0 or a worker
    workers,              \* per worker: where its call of handle_signal stands
    tasks,                \* the spawned send_telegram_alert tasks still running
    serial                \* the store had the requests run one by one in lock order

seqvars == <<last, spawned, emitted_since_sweep, history>>

concvars == <<lock, workers, tasks, serial>>

vars == <<pair_states, last, spawned, emitted_since_sweep, history,
          lock, workers, tasks, serial>>

(***************************************************************************)
(* Option                                                                  *)
(***************************************************************************)
None == <<>>

Some(x) == <<x>>

is_some(o) == o # <<>>

unwrap(o) == o[1]

(***************************************************************************)
(* Bounds of the model                                                     *)
(***************************************************************************)
\* Timestamps of the general specification lie on hours 08:00 .. 08:00+MaxTick h.
MaxTick == 2

\* Number of requests of a scripted run (specification SpecScenario).
MaxHistory == 5

\* Number of requests handled at the same time (specification SpecConcurrent).
NumWorkers == 2

(***************************************************************************)
(* Program constants                                                       *)
(***************************************************************************)
\* models.rs:124  signals_sent_since_session < 3
MaxSignals == 3

\* models.rs:180  Duration::hours(1), in minutes
OneHour == 60

(***************************************************************************)
(* Timestamp strings                                                       *)
(***************************************************************************)
\* layout "T"     : "%Y-%m-%dT%H:%M:%S"
\* layout "space" : "%Y-%m-%d %H:%M:%S"
\* layout "other" : a string neither format matches
TimeStr(layout, zulu, minute) == [layout |-> layout, zulu |-> zulu, minute |-> minute]

trim_end_matches_Z(time_str) == [time_str EXCEPT !.zulu = FALSE]

parse_from_str(cleaned, fmt) ==
    IF cleaned.layout = fmt /\ ~cleaned.zulu THEN Some(cleaned.minute) ELSE None

parse_time(time_str) ==
    LET cleaned == trim_end_matches_Z(time_str)
        first == parse_from_str(cleaned, "T")
    IN  IF is_some(first) THEN first ELSE parse_from_str(cleaned, "space")

(***************************************************************************)
(* PairState                                                               *)
(***************************************************************************)
ConditionDetails(time, price, direction) ==
    [time |-> time, price |-> price, direction |-> direction]

FvgDetails(time, price, gap_high, gap_low) ==
    [time |-> time, price |-> price, gap_high |-> gap_high, gap_low |-> gap_low]

PairState_new(pair, timeframe) ==
    [ pair |-> pair,
      timeframe |-> timeframe,
      last_candle_time |-> None,
      sessions_sweep_met |-> FALSE,
      sessions_sweep_direction |-> None,
      sessions_sweep_details |-> None,
      fvg_met |-> FALSE,
      fvg_direction |-> None,
      fvg_details |-> None,
      absorption_met |-> FALSE,
      absorption_direction |-> None,
      absorption_details |-> None,
      cvd_met |-> FALSE,
      cvd_direction |-> None,
      cvd_details |-> None,
      signals_sent_since_session |-> 0 ]

\* Mutant: the reset leaves the divergence slot as it is.
reset_conditions_keeps_cvd(self) ==
    [self EXCEPT
        !.sessions_sweep_met = FALSE,
        !.sessions_sweep_direction = None,
        !.sessions_sweep_details = None,
        !.fvg_met = FALSE,
        !.fvg_direction = None,
        !.fvg_details = None,
        !.absorption_met = FALSE,
        !.absorption_direction = None,
        !.absorption_details = None,
        !.signals_sent_since_session = 0]

\* Mutant: the reset leaves the sweep slot as it is.
reset_conditions_keeps_sweep(self) ==
    [self EXCEPT
        !.fvg_met = FALSE,
        !.fvg_direction = None,
        !.fvg_details = None,
        !.absorption_met = FALSE,
        !.absorption_direction = None,
        !.absorption_details = None,
        !.signals_sent_since_session = 0,
        !.cvd_direction = None,
        !.cvd_met = FALSE,
        !.cvd_details = None]

reset_conditions(self) ==
    [self EXCEPT
        !.sessions_sweep_met = FALSE,
        !.sessions_sweep_direction = None,
        !.sessions_sweep_details = None,
        !.fvg_met = FALSE,
        !.fvg_direction = None,
        !.fvg_details = None,
        !.absorption_met = FALSE,
        !.absorption_direction = None,
        !.absorption_details = None,
        !.signals_sent_since_session = 0,
        !.cvd_direction = None,
        !.cvd_met = FALSE,
        !.cvd_details = None]

reset_after_trade(self) ==
    [self EXCEPT !.cvd_met = FALSE, !.cvd_details = None]

\* Mutant: the comparison of the two directions is inverted.
direction_check_equal(self) ==
    IF is_some(self.sessions_sweep_direction) /\ is_some(self.cvd_direction)
    THEN unwrap(self.sessions_sweep_direction) = unwrap(self.cvd_direction)
    ELSE FALSE

direction_check(self) ==
    IF is_some(self.sessions_sweep_direction) /\ is_some(self.cvd_direction)
    THEN unwrap(self.sessions_sweep_direction) # unwrap(self.cvd_direction)
    ELSE FALSE

\* Mutant: the cap of 3 signals per session is not checked.
are_all_conditions_met_uncapped(self) ==
    /\ self.sessions_sweep_met
    /\ self.fvg_met
    /\ self.absorption_met
    /\ self.cvd_met
    /\ direction_check(self)

are_all_conditions_met(self) ==
    /\ self.sessions_sweep_met
    /\ self.fvg_met
    /\ self.absorption_met
    /\ self.cvd_met
    /\ self.signals_sent_since_session < MaxSignals
    /\ direction_check(self)

check_fvg_time_window(self, fvg_time) ==
    IF is_some(self.sessions_sweep_details)
    THEN LET sweep == unwrap(self.sessions_sweep_details)
             fvg_dt == parse_time(fvg_time)
             sweep_dt == parse_time(sweep.time)
         IN  IF ~is_some(fvg_dt) THEN TRUE
             ELSE IF ~is_some(sweep_dt) THEN TRUE
             ELSE IF unwrap(fvg_dt) >= unwrap(sweep_dt) THEN TRUE
             ELSE unwrap(sweep_dt) - unwrap(fvg_dt) <= OneHour
    ELSE TRUE

(***************************************************************************)
(* handle_signal: the arms of the match on signal_type                     *)
(***************************************************************************)
SignalRequest(signal_type, pair, timeframe, candle_time, direction, candle_close, fvg_direction, gap_high, gap_low) ==
    [ signal_type |-> signal_type, pair |-> pair, timeframe |-> timeframe,
      candle_time |-> candle_time, direction |-> direction,
      candle_close |-> candle_close, fvg_direction |-> fvg_direction,
      gap_high |-> gap_high, gap_low |-> gap_low ]

format_key(pair, timeframe) == pair \o "_" \o timeframe

entry_or_insert_with(states, key, signal) ==
    IF key \in DOMAIN states
    THEN states
    ELSE [k \in DOMAIN states \cup {key} |->
            IF k = key THEN PairState_new(signal.pair, signal.timeframe) ELSE states[k]]

\* Mutant: the stored fvg is not restored after the reset.
sessions_sweep_arm_no_restore(pair_state, signal, candle_close) ==
    LET cleared == reset_conditions(pair_state)
    IN  IF is_some(signal.direction)
        THEN [cleared EXCEPT
                !.sessions_sweep_met = TRUE,
                !.sessions_sweep_direction = Some(unwrap(signal.direction)),
                !.sessions_sweep_details =
                    Some(ConditionDetails(signal.candle_time, candle_close,
                                          unwrap(signal.direction)))]
        ELSE cleared

sessions_sweep_arm(pair_state, signal, candle_close) ==
    LET stored_fvg == pair_state.fvg_details
        stored_fvg_met == pair_state.fvg_met
        stored_fvg_direction == pair_state.fvg_direction
        cleared == reset_conditions(pair_state)
        restored == IF stored_fvg_met
                    THEN [cleared EXCEPT !.fvg_met = stored_fvg_met,
                                         !.fvg_direction = stored_fvg_direction,
                                         !.fvg_details = stored_fvg]
                    ELSE cleared
    IN  IF is_some(signal.direction)
        THEN [restored EXCEPT
                !.sessions_sweep_met = TRUE,
                !.sessions_sweep_direction = Some(unwrap(signal.direction)),
                !.sessions_sweep_details =
                    Some(ConditionDetails(signal.candle_time, candle_close,
                                          unwrap(signal.direction)))]
        ELSE restored

\* Mutant: a met fvg slot is kept, the first gap wins.
fvg_arm_first_wins(pair_state, signal, candle_close) ==
    IF is_some(signal.fvg_direction) /\ is_some(signal.gap_high) /\ is_some(signal.gap_low)
          /\ ~pair_state.fvg_met
    THEN [pair_state EXCEPT
            !.fvg_met = TRUE,
            !.fvg_direction = Some(unwrap(signal.fvg_direction)),
            !.fvg_details = Some(FvgDetails(signal.candle_time, candle_close,
                                            unwrap(signal.gap_high),
                                            unwrap(signal.gap_low)))]
    ELSE pair_state

fvg_arm(pair_state, signal, candle_close) ==
    IF is_some(signal.fvg_direction) /\ is_some(signal.gap_high) /\ is_some(signal.gap_low)
    THEN [pair_state EXCEPT
            !.fvg_met = TRUE,
            !.fvg_direction = Some(unwrap(signal.fvg_direction)),
            !.fvg_details = Some(FvgDetails(signal.candle_time, candle_close,
                                            unwrap(signal.gap_high),
                                            unwrap(signal.gap_low)))]
    ELSE pair_state

absorption_arm(pair_state, signal, candle_close) ==
    IF is_some(signal.direction)
    THEN [pair_state EXCEPT
            !.absorption_met = TRUE,
            !.absorption_direction = Some(unwrap(signal.direction)),
            !.absorption_details =
                Some(ConditionDetails(signal.candle_time, candle_close,
                                      unwrap(signal.direction)))]
    ELSE pair_state

\* Mutant: a divergence in the sweep's direction is not turned away.
cvd_returns_early_never(pair_state, signal) == FALSE

\* The early return of the cvd arm (handlers.rs:101-106).
cvd_returns_early(pair_state, signal) ==
    /\ pair_state.absorption_met
    /\ is_some(signal.direction)
    /\ is_some(pair_state.sessions_sweep_direction)
    /\ unwrap(pair_state.sessions_sweep_direction) = unwrap(signal.direction)

\* Mutant: the divergence is stored whether or not absorption is met.
cvd_arm_ungated(pair_state, signal, candle_close) ==
    IF is_some(signal.direction) /\ ~cvd_returns_early(pair_state, signal)
    THEN [pair_state EXCEPT
            !.cvd_met = TRUE,
            !.cvd_direction = Some(unwrap(signal.direction)),
            !.cvd_details =
                Some(ConditionDetails(signal.candle_time, candle_close,
                                      unwrap(signal.direction)))]
    ELSE pair_state

cvd_arm(pair_state, signal, candle_close) ==
    IF pair_state.absorption_met /\ is_some(signal.direction)
          /\ ~cvd_returns_early(pair_state, signal)
    THEN [pair_state EXCEPT
            !.cvd_met = TRUE,
            !.cvd_direction = Some(unwrap(signal.direction)),
            !.cvd_details =
                Some(ConditionDetails(signal.candle_time, candle_close,
                                      unwrap(signal.direction)))]
    ELSE pair_state

KnownTypes == {"sessions_sweep", "fvg", "absorption", "cvd"}

match_signal_type(pair_state, signal, candle_close) ==
    CASE signal.signal_type = "sessions_sweep" ->
            sessions_sweep_arm(pair_state, signal, candle_close)
      [] signal.signal_type = "fvg" -> fvg_arm(pair_state, signal, candle_close)
      [] signal.signal_type = "absorption" ->
            absorption_arm(pair_state, signal, candle_close)
      [] signal.signal_type = "cvd" -> cvd_arm(pair_state, signal, candle_close)
      [] OTHER -> pair_state

(***************************************************************************)
(* handle_signal: evaluation and emission                                  *)
(***************************************************************************)
\* Mutant: the trade signal carries the sweep's direction.
invert_direction_same(direction) ==
    CASE direction = "bullish" -> "bullish"
      [] direction = "bearish" -> "bearish"
      [] OTHER -> "unknown"

invert_direction(direction) ==
    CASE direction = "bullish" -> "bearish"
      [] direction = "bearish" -> "bullish"
      [] OTHER -> "unknown"

TradeSignal(pair_state) ==
    [ signal_type |-> "trade_signal",
      pair |-> pair_state.pair,
      timeframe |-> pair_state.timeframe,
      candle_time |-> unwrap(pair_state.last_candle_time),
      direction |-> invert_direction(unwrap(pair_state.sessions_sweep_direction)) ]

\* The arguments moved into the task that runs send_telegram_alert.
send_telegram_alert(trade_signal, pair_state, candle_close) ==
    [ signal |-> trade_signal,
      sweep_details |-> pair_state.sessions_sweep_details,
      fvg_details |-> pair_state.fvg_details,
      absorption_details |-> pair_state.absorption_details,
      cvd_details |-> pair_state.cvd_details,
      candle_close |-> candle_close ]

increment_counter(pair_state) ==
    [pair_state EXCEPT !.signals_sent_since_session = @ + 1]

Response(status, body, json) == [status |-> status, body |-> body, json |-> json]

Outcome(states, response, task) ==
    [pair_states |-> states, response |-> response, spawned |-> task]

\* Mutant: candle_close is validated after the entry for the key is made.
missing_candle_close_after_entry(states, signal) ==
    Outcome(entry_or_insert_with(states, format_key(signal.pair, signal.timeframe),
                                 signal),
            Response(400, "candle_close is required", None), None)

\* The return taken when candle_close is None (handlers.rs:24-27).
missing_candle_close(states, signal) ==
    Outcome(states, Response(400, "candle_close is required", None), None)

\* Mutant: the details are cloned after reset_after_trade.
emit_trade_clones_late(pair_state, candle_close) ==
    LET trade_signal == TradeSignal(pair_state)
        cleared == reset_after_trade(increment_counter(pair_state))
    IN  [ pair_state |-> cleared,
          trade_signal |-> trade_signal,
          task |-> send_telegram_alert(trade_signal, cleared, candle_close) ]

\* The emission (handlers.rs:134-181): compose the trade signal, count it,
\* clone the four details for the task, then reset_after_trade.
emit_trade(pair_state, candle_close) ==
    LET trade_signal == TradeSignal(pair_state)
        counted == increment_counter(pair_state)
    IN  [ pair_state |-> reset_after_trade(counted),
          trade_signal |-> trade_signal,
          task |-> send_telegram_alert(trade_signal, counted, candle_close) ]

\* Mutant: the window check never rejects.
window_check_always(pair_state, signal) == TRUE

\* The window check as the handler calls it (handlers.rs:129).
window_check(pair_state, signal) ==
    check_fvg_time_window(pair_state, signal.candle_time)

process(states, signal) ==
    LET key == format_key(signal.pair, signal.timeframe)
    IN  IF ~is_some(signal.candle_close)
        THEN missing_candle_close(states, signal)
        ELSE
        LET candle_close == unwrap(signal.candle_close)
            inserted == entry_or_insert_with(states, key, signal)
            touched == [inserted[key] EXCEPT
                            !.last_candle_time = Some(signal.candle_time)]
            applied == match_signal_type(touched, signal, candle_close)
            put(ps) == [inserted EXCEPT ![key] = ps]
        IN  IF signal.signal_type = "cvd" /\ cvd_returns_early(touched, signal)
            THEN Outcome(put(touched), Response(200, "Signal processed", None), None)
            ELSE IF signal.signal_type \notin KnownTypes
            THEN Outcome(put(touched), Response(400, "Unknown signal type", None), None)
            ELSE IF are_all_conditions_met(applied)
            THEN IF ~window_check(applied, signal)
                 THEN Outcome(put(applied), Response(200, "Signal processed", None), None)
                 ELSE LET out == emit_trade(applied, candle_close)
                      IN  Outcome(put(out.pair_state),
                                  Response(200, "", Some(out.trade_signal)),
                                  Some(out.task))
            ELSE Outcome(put(applied),
                         Response(200, "Signal processed successfully", None), None)

handle_signal(signal) ==
    \E out \in {process(pair_states, signal)} :
        /\ pair_states' = out.pair_states
        /\ last' = Some([signal |-> signal, response |-> out.response])
        /\ spawned' = out.spawned

(***************************************************************************)
(* Requests                                                                *)
(***************************************************************************)
Pair == "BTCUSDT"

Timeframe == "5m"

Directions == {"bullish", "bearish"}

OptDirections == {None} \cup {Some(d) : d \in Directions}

\* "2023-07-10T08:00:00Z", "2023-07-10T09:00:00Z", ...
Hour(i) == TimeStr("T", TRUE, (8 + i) * 60)

\* A candle_time neither format parses, e.g. "10:00".
Unparseable == TimeStr("other", FALSE, 0)

CandleTimes == {Hour(i) : i \in 0..MaxTick} \cup {Unparseable}

Close == Some(100)

GapHigh == Some(105)

GapLow == Some(100)

Sweep(t, d, close) ==
    SignalRequest("sessions_sweep", Pair, Timeframe, t, d, close, None, None, None)

Fvg(t, d, close, high, low) ==
    SignalRequest("fvg", Pair, Timeframe, t, None, close, d, high, low)

Absorption(t, d, close) ==
    SignalRequest("absorption", Pair, Timeframe, t, d, close, None, None, None)

Cvd(t, d, close) ==
    SignalRequest("cvd", Pair, Timeframe, t, d, close, None, None, None)

Other(t, d, close) ==
    SignalRequest("volume_spike", Pair, Timeframe, t, d, close, None, None, None)

\* Absorption and divergence requests carry the earliest or the latest hour.
EdgeTimes == {Hour(0), Hour(MaxTick)}

SweepSignals ==
    {Sweep(t, Some(d), Close) : t \in CandleTimes, d \in Directions}
    \cup {Sweep(Hour(MaxTick), None, Close)}

FvgSignals ==
    {Fvg(t, Some(d), Close, GapHigh, GapLow) : t \in CandleTimes, d \in Directions}
    \cup {Fvg(Hour(MaxTick), None, Close, GapHigh, GapLow),
          Fvg(Hour(MaxTick), Some("bullish"), Close, None, GapLow),
          Fvg(Hour(MaxTick), Some("bullish"), Close, GapHigh, None)}

AbsorptionSignals ==
    {Absorption(t, Some(d), Close) : t \in EdgeTimes, d \in Directions}
    \cup {Absorption(Hour(MaxTick), None, Close)}

CvdSignals ==
    {Cvd(t, Some(d), Close) : t \in EdgeTimes, d \in Directions}
    \cup {Cvd(Hour(MaxTick), None, Close)}

OtherSignals == {Other(Hour(MaxTick), Some("bullish"), Close)}

NoCloseSignals ==
    {Sweep(Hour(MaxTick), Some("bullish"), None),
     Fvg(Hour(MaxTick), Some("bullish"), None, GapHigh, GapLow),
     Absorption(Hour(MaxTick), Some("bullish"), None),
     Cvd(Hour(MaxTick), Some("bearish"), None),
     Other(Hour(MaxTick), Some("bullish"), None)}

Signals ==
    SweepSignals \cup FvgSignals \cup AbsorptionSignals \cup CvdSignals
        \cup OtherSignals \cup NoCloseSignals

(***************************************************************************)
(* Observation of the responses (history variables, no program state)      *)
(***************************************************************************)
Get(f, k, default) == IF k \in DOMAIN f THEN f[k] ELSE default

Put(f, k, v) == [x \in DOMAIN f \cup {k} |-> IF x = k THEN v ELSE f[x]]

Emitted(l) == is_some(l) /\ is_some(unwrap(l).response.json)

Observe(signal) ==
    LET key == format_key(signal.pair, signal.timeframe)
        n == Get(emitted_since_sweep, key, 0)
    IN  emitted_since_sweep' =
            IF signal.signal_type = "sessions_sweep" /\ is_some(signal.candle_close)
            THEN Put(emitted_since_sweep, key, 0)
            ELSE IF Emitted(last')
            THEN Put(emitted_since_sweep, key,
                     IF n > MaxSignals THEN n ELSE n + 1)
            ELSE emitted_since_sweep

(***************************************************************************)
(* Specification: any request, in any order                                *)
(***************************************************************************)
\* A worker that is not inside handle_signal.
Idle ==
    [ pc |-> "idle", signal |-> None, response |-> None, expected |-> None,
      trade_signal |-> None, payload |-> None, spawned |-> FALSE ]

Init ==
    /\ pair_states = <<>>
    /\ last = None
    /\ spawned = None
    /\ emitted_since_sweep = <<>>
    /\ history = <<>>
    /\ lock = 0
    /\ workers = [w \in 1..NumWorkers |-> Idle]
    /\ tasks = {}
    /\ serial = <<>>

Request ==
    \E signal \in Signals :
        handle_signal(signal) /\ Observe(signal) /\ UNCHANGED <<history, concvars>>

Next == Request

Spec == Init /\ [][Next]_vars

(***************************************************************************)
(* Specification: scripted runs over the requests of Scenarios A and B     *)
(***************************************************************************)
\* "2023-07-10T10:00:00Z"
Clock(h, m) == TimeStr("T", TRUE, h * 60 + m)

\* "2023-07-10 09:30:00"
ClockSpaced(h, m) == TimeStr("space", FALSE, h * 60 + m)

A_sweep == Sweep(Clock(10, 0), Some("bearish"), Close)

A_fvg == Fvg(ClockSpaced(9, 30), Some("bullish"), Close, GapHigh, GapLow)

A_absorption == Absorption(Clock(10, 5), Some("bullish"), Close)

A_divergence_bullish == Cvd(Clock(10, 6), Some("bullish"), Close)

A_divergence_bearish == Cvd(Clock(10, 7), Some("bearish"), Close)

B_fvg == Fvg(Clock(8, 0), Some("bullish"), Close, GapHigh, GapLow)

ScenarioSignals ==
    {A_sweep, A_fvg, A_absorption, A_divergence_bullish, A_divergence_bearish, B_fvg}

ScriptedRequest ==
    \E signal \in ScenarioSignals :
        /\ Len(history) < MaxHistory
        /\ handle_signal(signal)
        /\ Observe(signal)
        /\ history' = Append(history, signal)
        /\ UNCHANGED concvars

NextScenario == ScriptedRequest

SpecScenario == Init /\ [][NextScenario]_vars

(***************************************************************************)
(* Specification: requests whose direction is any string                   *)
(***************************************************************************)
\* direction is Option<String>: any string is accepted by the handler.
AnyDirections == {"bullish", "bearish", "sideways", "unknown"}

DirectionSignals ==
    {Sweep(Hour(0), Some(d), Close) : d \in AnyDirections}
    \cup {Fvg(Hour(0), Some("bullish"), Close, GapHigh, GapLow)}
    \cup {Absorption(Hour(0), Some(d), Close) : d \in Directions}
    \cup {Cvd(Hour(0), Some(d), Close) : d \in AnyDirections}

DirectedRequest ==
    \E signal \in DirectionSignals :
        handle_signal(signal) /\ Observe(signal) /\ UNCHANGED <<history, concvars>>

NextDirections == DirectedRequest

SpecDirections == Init /\ [][NextDirections]_vars

(***************************************************************************)
(* Specification: requests for several (pair, timeframe) combinations      *)
(***************************************************************************)
\* pair and timeframe are free strings; some contain the separator of the key.
Pairs == {"EUR", "EUR_USD"}

Timeframes == {"1h", "USD_1h"}

RequestFor(signal, pair, timeframe) ==
    [signal EXCEPT !.pair = pair, !.timeframe = timeframe]

KeySignals ==
    {RequestFor(signal, pair, timeframe) :
        signal \in {Sweep(Hour(0), Some("bullish"), Close),
                    Fvg(Hour(0), Some("bullish"), Close, GapHigh, GapLow),
                    Absorption(Hour(0), Some("bullish"), Close),
                    Cvd(Hour(0), Some("bearish"), Close)},
        pair \in Pairs, timeframe \in Timeframes}

KeyedRequest ==
    \E signal \in KeySignals :
        handle_signal(signal) /\ Observe(signal) /\ UNCHANGED <<history, concvars>>

NextKeys == KeyedRequest

SpecKeys == Init /\ [][NextKeys]_vars

(***************************************************************************)
(* Specification: requests handled at the same time by several workers.    *)
(* handle_signal is taken statement by statement: the Mutex is locked at   *)
(* handlers.rs:32 and its guard is dropped when the function returns.      *)
(***************************************************************************)
Workers == 1..NumWorkers

ConcurrentSignals ==
    {Sweep(Hour(0), Some("bullish"), Close),
     Fvg(Hour(0), Some("bullish"), Close, GapHigh, GapLow),
     Absorption(Hour(0), Some("bullish"), Some(101)),
     Cvd(Hour(0), Some("bearish"), Some(102)),
     Cvd(Hour(0), Some("bearish"), Some(103)),
     Cvd(Hour(0), Some("bullish"), Close),
     Other(Hour(0), Some("bullish"), Close),
     Cvd(Hour(0), Some("bearish"), None)}

\* Mutant: the store is entered without waiting for the Mutex.
lock_available_always(holder) == TRUE

\* state.pair_states.lock() returns once nobody holds the Mutex (handlers.rs:32).
lock_available(holder) == holder = 0

SignalOf(w) == unwrap(workers[w].signal)

\* handlers.rs:16-28: the request arrives and candle_close is validated.
Receive(w) ==
    /\ workers[w].pc = "idle"
    /\ \E signal \in ConcurrentSignals :
          workers' = [workers EXCEPT ![w] =
              IF is_some(signal.candle_close)
              THEN [Idle EXCEPT !.pc = "lock", !.signal = Some(signal)]
              ELSE [Idle EXCEPT
                      !.pc = "return",
                      !.signal = Some(signal),
                      !.response = Some(missing_candle_close(pair_states, signal).response),
                      !.expected = Some(process(serial, signal).response)]]
    /\ UNCHANGED <<pair_states, lock, tasks, serial, seqvars>>

\* handlers.rs:32: the Mutex is taken.  The serial store runs the whole
\* request at this point.
Acquire(w) ==
    /\ workers[w].pc = "lock"
    /\ lock_available(lock)
    /\ lock' = w
    /\ \E out \in {process(serial, SignalOf(w))} :
          /\ serial' = out.pair_states
          /\ workers' = [workers EXCEPT ![w].pc = "apply",
                                        ![w].expected = Some(out.response)]
    /\ UNCHANGED <<pair_states, tasks, seqvars>>

\* handlers.rs:33-124: get or create the entry, set last_candle_time, run
\* the arm of the signal type.
Apply(w) ==
    /\ workers[w].pc = "apply"
    /\ LET signal == SignalOf(w)
           key == format_key(signal.pair, signal.timeframe)
           inserted == entry_or_insert_with(pair_states, key, signal)
           touched == [inserted[key] EXCEPT
                          !.last_candle_time = Some(signal.candle_time)]
           applied == match_signal_type(touched, signal, unwrap(signal.candle_close))
       IN  IF signal.signal_type = "cvd" /\ cvd_returns_early(touched, signal)
           THEN /\ pair_states' = [inserted EXCEPT ![key] = touched]
                /\ workers' = [workers EXCEPT
                      ![w].pc = "return",
                      ![w].response = Some(Response(200, "Signal processed", None))]
           ELSE IF signal.signal_type \notin KnownTypes
           THEN /\ pair_states' = [inserted EXCEPT ![key] = touched]
                /\ workers' = [workers EXCEPT
                      ![w].pc = "return",
                      ![w].response = Some(Response(400, "Unknown signal type", None))]
           ELSE /\ pair_states' = [inserted EXCEPT ![key] = applied]
                /\ workers' = [workers EXCEPT ![w].pc = "evaluate"]
    /\ UNCHANGED <<lock, tasks, serial, seqvars>>

\* handlers.rs:127-132 and 193: are_all_conditions_met and the window check.
Evaluate(w) ==
    /\ workers[w].pc = "evaluate"
    /\ LET signal == SignalOf(w)
           pair_state == pair_states[format_key(signal.pair, signal.timeframe)]
       IN  workers' = [workers EXCEPT ![w] =
              IF ~are_all_conditions_met(pair_state)
              THEN [@ EXCEPT !.pc = "return",
                             !.response = Some(Response(200,
                                              "Signal processed successfully", None))]
              ELSE IF ~window_check(pair_state, signal)
              THEN [@ EXCEPT !.pc = "return",
                             !.response = Some(Response(200, "Signal processed", None))]
              ELSE [@ EXCEPT !.pc = "emit"]]
    /\ UNCHANGED <<pair_states, lock, tasks, serial, seqvars>>

\* handlers.rs:134-160: trade signal, counter, clones of the details, reset.
Emit(w) ==
    /\ workers[w].pc = "emit"
    /\ LET signal == SignalOf(w)
           key == format_key(signal.pair, signal.timeframe)
       IN  \E out \in {emit_trade(pair_states[key], unwrap(signal.candle_close))} :
              /\ pair_states' = [pair_states EXCEPT ![key] = out.pair_state]
              /\ workers' = [workers EXCEPT ![w].pc = "spawn",
                                            ![w].trade_signal = Some(out.trade_signal),
                                            ![w].payload = Some(out.task)]
    /\ UNCHANGED <<lock, tasks, serial, seqvars>>

\* handlers.rs:163-190: tokio::spawn moves the clones into the task; the
\* response is built from the trade signal.
Spawn(w) ==
    /\ workers[w].pc = "spawn"
    /\ tasks' = tasks \cup {unwrap(workers[w].payload)}
    /\ workers' = [workers EXCEPT
          ![w].pc = "return",
          ![w].spawned = TRUE,
          ![w].payload = None,
          ![w].response = Some(Response(200, "", workers[w].trade_signal))]
    /\ UNCHANGED <<pair_states, lock, serial, seqvars>>

\* The function returns: the guard, if taken, is dropped and the response
\* goes to the caller.
Return(w) ==
    /\ workers[w].pc = "return"
    /\ lock' = IF lock = w THEN 0 ELSE lock
    /\ workers' = [workers EXCEPT ![w] = Idle]
    /\ UNCHANGED <<pair_states, tasks, serial, seqvars>>

\* handlers.rs:196-266: a spawned send_telegram_alert runs to its end.
TaskRun ==
    /\ \E task \in tasks : tasks' = tasks \ {task}
    /\ UNCHANGED <<pair_states, lock, workers, serial, seqvars>>

NextConcurrent ==
    \/ \E w \in Workers : Receive(w)
    \/ \E w \in Workers : Acquire(w)
    \/ \E w \in Workers : Apply(w)
    \/ \E w \in Workers : Evaluate(w)
    \/ \E w \in Workers : Emit(w)
    \/ \E w \in Workers : Spawn(w)
    \/ \E w \in Workers : Return(w)
    \/ TaskRun

SpecConcurrent == Init /\ [][NextConcurrent]_vars

(***************************************************************************)
(* Vocabulary of the properties                                            *)
(***************************************************************************)
KeyOf(signal) == format_key(signal.pair, signal.timeframe)

\* The correlator of a key, a fresh one when the store has none.
StateOf(states, signal) ==
    Get(states, KeyOf(signal), PairState_new(signal.pair, signal.timeframe))

LastSignal == unwrap(last).signal

LastResponse == unwrap(last).response

Processed(signal) ==
    is_some(signal.candle_close) /\ signal.signal_type \in KnownTypes

SweepSlot(ps) ==
    <<ps.sessions_sweep_met, ps.sessions_sweep_direction, ps.sessions_sweep_details>>

FvgSlot(ps) == <<ps.fvg_met, ps.fvg_direction, ps.fvg_details>>

AbsorptionSlot(ps) ==
    <<ps.absorption_met, ps.absorption_direction, ps.absorption_details>>

DivergenceSlot(ps) == <<ps.cvd_met, ps.cvd_direction, ps.cvd_details>>

AllFourMet(ps) ==
    ps.sessions_sweep_met /\ ps.fvg_met /\ ps.absorption_met /\ ps.cvd_met

\* The correlator of the request's key right after the request is applied to
\* its slots, before the composite is evaluated.
AfterApply(states, signal) ==
    match_signal_type(
        [StateOf(states, signal) EXCEPT !.last_candle_time = Some(signal.candle_time)],
        signal, unwrap(signal.candle_close))

\* The window check on the timestamps recorded in the fvg and sweep slots.
StoredGapAccepted(ps) ==
    ~is_some(ps.fvg_details)
        \/ check_fvg_time_window(ps, unwrap(ps.fvg_details).time)

\* The fvg slot holds a timestamp more than one hour before the sweep slot's.
StoredGapStale(ps) ==
    /\ is_some(ps.fvg_details)
    /\ is_some(ps.sessions_sweep_details)
    /\ is_some(parse_time(unwrap(ps.fvg_details).time))
    /\ is_some(parse_time(unwrap(ps.sessions_sweep_details).time))
    /\ unwrap(parse_time(unwrap(ps.sessions_sweep_details).time))
          - unwrap(parse_time(unwrap(ps.fvg_details).time)) > OneHour

OppositeDivergence(ps, signal) ==
    /\ signal.signal_type = "cvd"
    /\ is_some(signal.candle_close)
    /\ is_some(signal.direction)
    /\ is_some(ps.sessions_sweep_direction)
    /\ unwrap(signal.direction) # unwrap(ps.sessions_sweep_direction)

(***************************************************************************)
(* C1. The emission counter of every key is at most 3 in every reachable   *)
(* state, and at most 3 trade signals are returned for a key between two   *)
(* processed sweeps: with 3 returned, nothing but a sweep makes a fourth.  *)
(***************************************************************************)
C1_EmissionCap ==
    /\ \A k \in DOMAIN pair_states :
          pair_states[k].signals_sent_since_session <= MaxSignals
    /\ \A k \in DOMAIN emitted_since_sweep : emitted_since_sweep[k] <= MaxSignals
    /\ \A k \in DOMAIN pair_states :
          pair_states[k].signals_sent_since_session = Get(emitted_since_sweep, k, 0)

\* Scenario D: after three emissions a fourth valid divergence is stored
\* (all four slots met, directions opposite) and nothing is emitted.
C1_Witness ==
    /\ is_some(last)
    /\ StateOf(pair_states, LastSignal).signals_sent_since_session = MaxSignals
    /\ Get(emitted_since_sweep, KeyOf(LastSignal), 0) = MaxSignals
    /\ OppositeDivergence(StateOf(pair_states, LastSignal), LastSignal)
    /\ AllFourMet(StateOf(pair_states, LastSignal))
    /\ ~Emitted(last)

(***************************************************************************)
(* C2. A processed request returns a trade signal if and only if, once it  *)
(* is applied, all four slots are met, the sweep and divergence directions *)
(* differ, the counter is below 3 and the window check accepts the         *)
(* timestamp recorded in the fvg slot against the one recorded in the      *)
(* sweep slot.                                                             *)
(***************************************************************************)
C2_EmitsIffStoredWindow ==
    [][ LET signal == unwrap(last').signal
            ps == AfterApply(pair_states, signal)
        IN  Processed(signal) =>
              ( Emitted(last') <=>
                  /\ AllFourMet(ps)
                  /\ is_some(ps.sessions_sweep_direction)
                  /\ is_some(ps.cvd_direction)
                  /\ ps.sessions_sweep_direction # ps.cvd_direction
                  /\ ps.signals_sent_since_session < MaxSignals
                  /\ StoredGapAccepted(ps) )
      ]_vars

(***************************************************************************)
(* C3. While the fvg slot holds a timestamp more than one hour before the  *)
(* sweep slot's, no request returns a trade signal; Scenario B (sweep at   *)
(* 10:00, fvg stamped 08:00, absorption, opposite divergence) returns none *)
(* and leaves the counter at 0.                                            *)
(***************************************************************************)
ScenarioB == <<A_sweep, B_fvg, A_absorption, A_divergence_bullish>>

C3_StaleGapSuppresses ==
    /\ Emitted(last) => ~StoredGapStale(StateOf(pair_states, LastSignal))
    /\ history = ScenarioB =>
          /\ ~Emitted(last)
          /\ StateOf(pair_states, LastSignal).signals_sent_since_session = 0

(***************************************************************************)
(* C4. Scenario A as claimed: after sweep(bearish, 10:00), fvg(bullish,    *)
(* 09:30), absorption(bullish, 10:05), the divergence(bullish, 10:06) is   *)
(* turned away with no emission and the divergence(bearish, 10:07) that    *)
(* follows fires the composite with direction bullish.                     *)
(***************************************************************************)
ScenarioA4 == <<A_sweep, A_fvg, A_absorption, A_divergence_bullish>>

ScenarioA5 == Append(ScenarioA4, A_divergence_bearish)

C4_ScenarioA_AsClaimed ==
    /\ history = ScenarioA4 => ~Emitted(last)
    /\ history = ScenarioA5 =>
          Emitted(last) /\ unwrap(LastResponse.json).direction = "bullish"

(***************************************************************************)
(* C4, amended. In Scenario A the divergence(bullish, 10:06) runs counter  *)
(* to the bearish sweep: it fires the composite with direction bullish.    *)
(* The divergence(bearish, 10:07) that follows has the sweep's direction:  *)
(* it is turned away with a success response and no emission.              *)
(***************************************************************************)
C4_ScenarioA ==
    /\ history = ScenarioA4 =>
          /\ Emitted(last)
          /\ unwrap(LastResponse.json).direction = "bullish"
          /\ StateOf(pair_states, LastSignal).signals_sent_since_session = 1
    /\ history = ScenarioA5 =>
          /\ ~Emitted(last)
          /\ LastResponse.status = 200
          /\ LastResponse.body = "Signal processed"
          /\ ~StateOf(pair_states, LastSignal).cvd_met
          /\ StateOf(pair_states, LastSignal).signals_sent_since_session = 1

C4_Witness ==
    /\ history = ScenarioA5
    /\ LastSignal = A_divergence_bearish
    /\ Get(emitted_since_sweep, KeyOf(A_sweep), 0) = 1

(***************************************************************************)
(* C5. A divergence request with a price whose direction equals the sweep  *)
(* direction recorded for its key leaves the divergence slot, the other    *)
(* three slots and the counter unchanged, emits nothing and is answered    *)
(* with a success status.                                                  *)
(***************************************************************************)
C5_SameDirectionDivergenceIgnored ==
    [][ LET signal == unwrap(last').signal
            before == StateOf(pair_states, signal)
            after == StateOf(pair_states', signal)
        IN  ( /\ signal.signal_type = "cvd"
              /\ is_some(signal.candle_close)
              /\ is_some(signal.direction)
              /\ signal.direction = before.sessions_sweep_direction )
            =>
            ( /\ DivergenceSlot(after) = DivergenceSlot(before)
              /\ SweepSlot(after) = SweepSlot(before)
              /\ FvgSlot(after) = FvgSlot(before)
              /\ AbsorptionSlot(after) = AbsorptionSlot(before)
              /\ after.signals_sent_since_session = before.signals_sent_since_session
              /\ ~Emitted(last')
              /\ spawned' = None
              /\ unwrap(last').response.status = 200 )
      ]_vars

\* A divergence in the sweep's direction was answered while absorption was met
\* and an earlier, opposite divergence was stored: that one is still stored.
C5_Witness ==
    /\ is_some(last)
    /\ LastSignal.signal_type = "cvd"
    /\ is_some(LastSignal.candle_close)
    /\ is_some(LastSignal.direction)
    /\ LastSignal.direction = StateOf(pair_states, LastSignal).sessions_sweep_direction
    /\ StateOf(pair_states, LastSignal).absorption_met
    /\ StateOf(pair_states, LastSignal).cvd_met
    /\ StateOf(pair_states, LastSignal).cvd_direction # LastSignal.direction
    /\ LastResponse.status = 200
    /\ LastResponse.body = "Signal processed"

(***************************************************************************)
(* C6. Right after an emission the divergence slot is not met and the      *)
(* sweep, fvg and absorption slots are as they were before it; from there  *)
(* one divergence request against the sweep's direction emits again, while *)
(* fewer than 3 signals were emitted, with no other request in between.    *)
(***************************************************************************)
C6_RearmAfterEmission ==
    [][ LET signal == unwrap(last').signal
            before == StateOf(pair_states, signal)
            after == StateOf(pair_states', signal)
        IN  /\ Emitted(last') =>
                /\ ~after.cvd_met
                /\ SweepSlot(after) = SweepSlot(AfterApply(pair_states, signal))
                /\ FvgSlot(after) = FvgSlot(AfterApply(pair_states, signal))
                /\ AbsorptionSlot(after) = AbsorptionSlot(AfterApply(pair_states, signal))
            /\ ( /\ Emitted(last)
                 /\ KeyOf(signal) = KeyOf(LastSignal)
                 /\ before.signals_sent_since_session < MaxSignals
                 /\ OppositeDivergence(before, signal) )
               => Emitted(last')
      ]_vars

C8_DivergenceNeedsAbsorption ==
    [][ LET signal == unwrap(last').signal
            before == StateOf(pair_states, signal)
            after == StateOf(pair_states', signal)
        IN  /\ (signal.signal_type = "cvd" /\ ~before.absorption_met) =>
                  DivergenceSlot(after) = DivergenceSlot(before) /\ ~Emitted(last')
            /\ (after.cvd_met /\ ~before.cvd_met) =>
                  before.absorption_met /\ signal.signal_type = "cvd"
            /\ after.cvd_met => after.absorption_met
      ]_vars

\* A divergence against the recorded sweep arrived with sweep and fvg met and
\* absorption not met: it was not stored.
C8_Witness ==
    /\ is_some(last)
    /\ OppositeDivergence(StateOf(pair_states, LastSignal), LastSignal)
    /\ StateOf(pair_states, LastSignal).sessions_sweep_met
    /\ StateOf(pair_states, LastSignal).fvg_met
    /\ ~StateOf(pair_states, LastSignal).absorption_met
    /\ ~StateOf(pair_states, LastSignal).cvd_met
    /\ ~Emitted(last)
    /\ LastResponse.status = 200

(***************************************************************************)
(* C9. A request with an unrecognized signal_type is answered with a       *)
(* bad-request status and changes nothing: the store holds the same keys   *)
(* and the same correlators (slots, last_candle_time, counter) as before.  *)
(***************************************************************************)
C9_UnknownKindNoMutation ==
    [][ unwrap(last').signal.signal_type \notin KnownTypes =>
            /\ unwrap(last').response.status = 400
            /\ pair_states' = pair_states
      ]_vars

(***************************************************************************)
(* C10. A request of any kind without candle_close is answered with a      *)
(* bad-request status before the store is touched: no correlator is        *)
(* created, none changes, nothing is emitted and no task is spawned.       *)
(***************************************************************************)
C10_MissingPriceRejected ==
    [][ ~is_some(unwrap(last').signal.candle_close) =>
            /\ unwrap(last').response.status = 400
            /\ pair_states' = pair_states
            /\ ~Emitted(last')
            /\ spawned' = None
      ]_vars

\* A request without candle_close was answered and its key has no correlator.
C10_Witness ==
    /\ is_some(last)
    /\ ~is_some(LastSignal.candle_close)
    /\ LastResponse.status = 400
    /\ KeyOf(LastSignal) \notin DOMAIN pair_states

(***************************************************************************)
(* C11. As claimed: every trade signal has the inverse of the sweep        *)
(* direction recorded at emission (bullish gives bearish, bearish gives    *)
(* bullish, any other value gives "unknown") and never the sweep's own     *)
(* direction.                                                              *)
(***************************************************************************)
Inverse(d) ==
    IF d = "bullish" THEN "bearish" ELSE IF d = "bearish" THEN "bullish" ELSE "unknown"

RecordedSweepDirection == unwrap(StateOf(pair_states, LastSignal).sessions_sweep_direction)

C11_DirectionInverted_AsClaimed ==
    Emitted(last) =>
        /\ unwrap(LastResponse.json).direction = Inverse(RecordedSweepDirection)
        /\ unwrap(LastResponse.json).direction # RecordedSweepDirection

(***************************************************************************)
(* C11, amended. Every trade signal has the inverse of the sweep direction *)
(* recorded at emission (bullish gives bearish, bearish gives bullish, any *)
(* other value gives "unknown"); it carries the sweep's own direction only *)
(* when that direction is itself the string "unknown".                     *)
(***************************************************************************)
C11_DirectionInverted ==
    Emitted(last) =>
        /\ unwrap(LastResponse.json).direction = Inverse(RecordedSweepDirection)
        /\ unwrap(spawned).signal.direction = Inverse(RecordedSweepDirection)
        /\ RecordedSweepDirection # "unknown" =>
              unwrap(LastResponse.json).direction # RecordedSweepDirection

\* A trade signal was returned for a sweep whose direction is neither
\* bullish nor bearish: it carries the sentinel.
C11_Witness ==
    /\ Emitted(last)
    /\ RecordedSweepDirection = "sideways"
    /\ unwrap(LastResponse.json).direction = "unknown"

(***************************************************************************)
(* C12. Each (pair, timeframe) combination has its own correlator: a       *)
(* request changes the correlator of no other combination, also when pair  *)
(* or timeframe contain the character '_'.                                 *)
(***************************************************************************)
CorrelatorOf(states, pair, timeframe) ==
    Get(states, format_key(pair, timeframe), None)

C12_KeysIsolated ==
    [][ \A pair \in Pairs, timeframe \in Timeframes :
            <<pair, timeframe>> # <<unwrap(last').signal.pair,
                                    unwrap(last').signal.timeframe>>
            => CorrelatorOf(pair_states', pair, timeframe)
                  = CorrelatorOf(pair_states, pair, timeframe)
      ]_vars


(***************************************************************************)
(* C13. With requests handled at the same time, what each request does to  *)
(* the store between taking the lock and returning is one atomic step:     *)
(* whenever no request is between its first and its last store access the  *)
(* store equals the store obtained by running the accepted requests one    *)
(* after the other in the order of their lock acquisitions, every request  *)
(* returns the response of that serial run (so one divergence gives at     *)
(* most one emission), and no counter exceeds 3.                           *)
(***************************************************************************)
InStore(w) == workers[w].pc \in {"apply", "evaluate", "emit", "spawn"}

C13_Serializable ==
    /\ \A w \in Workers : InStore(w) => lock = w
    /\ (\A w \in Workers : ~InStore(w)) => pair_states = serial
    /\ \A w \in Workers :
          workers[w].pc = "return" => workers[w].response = workers[w].expected
    /\ \A k \in DOMAIN pair_states :
          pair_states[k].signals_sent_since_session <= MaxSignals

\* One request is about to spawn its notification while another request,
\* an opposite divergence, waits for the lock.
C13_Witness ==
    \E w, v \in Workers :
        /\ w # v
        /\ workers[w].pc = "spawn"
        /\ lock = w
        /\ workers[v].pc = "lock"
        /\ SignalOf(v).signal_type = "cvd"
        /\ SignalOf(v).direction = Some("bearish")

(***************************************************************************)
(* C14. The notification task of an emitting request is dispatched only    *)
(* after that request has released the store lock.                         *)
(***************************************************************************)
C14_DispatchAfterRelease ==
    \A w \in Workers : workers[w].spawned => lock # w

(***************************************************************************)
(* C15. The payload of the notification task is copied before the partial  *)
(* reset: its four details are the ones the store holds when the emission  *)
(* is decided, none is absent, its divergence detail is the one of the     *)
(* divergence request that emits, and a payload already dispatched stays   *)
(* in flight unchanged while later requests change the store.              *)
(***************************************************************************)
Emitting(w) == workers[w].pc = "emit" /\ workers'[w].pc = "spawn"

C15_PayloadStep ==
    /\ \A w \in Workers : Emitting(w) =>
          LET signal == SignalOf(w)
              before == pair_states[KeyOf(signal)]
              payload == unwrap(workers'[w].payload)
          IN  /\ payload.sweep_details = before.sessions_sweep_details
              /\ payload.fvg_details = before.fvg_details
              /\ payload.absorption_details = before.absorption_details
              /\ payload.cvd_details = before.cvd_details
              /\ is_some(payload.sweep_details)
              /\ is_some(payload.fvg_details)
              /\ is_some(payload.absorption_details)
              /\ is_some(payload.cvd_details)
              /\ signal.signal_type = "cvd" =>
                    payload.cvd_details =
                        Some(ConditionDetails(signal.candle_time,
                                              unwrap(signal.candle_close),
                                              unwrap(signal.direction)))
              /\ ~pair_states'[KeyOf(signal)].cvd_met
    /\ \A w \in Workers :
          (workers[w].pc = "spawn" /\ workers'[w].pc = "return") =>
              tasks' = tasks \cup {unwrap(workers[w].payload)}
    /\ pair_states' # pair_states => tasks' = tasks

C15_PayloadIsSnapshot == [][C15_PayloadStep]_vars

\* A payload is in flight with its absorption and divergence details while a
\* later sweep has cleared the absorption slot of the same key.
C15_Witness ==
    \E task \in tasks :
        /\ is_some(task.absorption_details)
        /\ is_some(task.cvd_details)
        /\ unwrap(task.cvd_details).price = 103
        /\ lock = 0
        /\ format_key(Pair, Timeframe) \in DOMAIN pair_states
        /\ ~pair_states[format_key(Pair, Timeframe)].absorption_met
        /\ pair_states[format_key(Pair, Timeframe)].sessions_sweep_met


(***************************************************************************)
(* C16. When a processed request leaves all four slots met with opposite   *)
(* directions and fewer than 3 signals sent, and the handler's window      *)
(* check rejects, the request has no other effect: the correlator is the   *)
(* one right after the request was applied (no slot cleared, counter not   *)
(* incremented), nothing is emitted or spawned, and the answer is 200.     *)
(***************************************************************************)
WindowRejects(ps, signal) ==
    /\ are_all_conditions_met(ps)
    /\ ~check_fvg_time_window(ps, signal.candle_time)

C17_SweepWithoutDirection ==
    [][ LET signal == unwrap(last').signal
            before == StateOf(pair_states, signal)
            after == StateOf(pair_states', signal)
            sweep == signal.signal_type = "sessions_sweep" /\ is_some(signal.candle_close)
        IN  /\ (sweep /\ ~is_some(signal.direction)) =>
                /\ SweepSlot(after) = <<FALSE, None, None>>
                /\ ~after.absorption_met
                /\ ~after.cvd_met
                /\ after.signals_sent_since_session = 0
                /\ before.fvg_met => FvgSlot(after) = FvgSlot(before)
                /\ ~Emitted(last')
            /\ (~before.sessions_sweep_met /\ after.sessions_sweep_met) =>
                  sweep /\ is_some(signal.direction)
            /\ Emitted(last') => before.sessions_sweep_met /\ ~sweep
      ]_vars

\* A sweep without direction was processed over a met fvg slot: the fvg is
\* still met and the sweep slot is empty.
C17_Witness ==
    /\ is_some(last)
    /\ LastSignal.signal_type = "sessions_sweep"
    /\ is_some(LastSignal.candle_close)
    /\ ~is_some(LastSignal.direction)
    /\ SweepSlot(StateOf(pair_states, LastSignal)) = <<FALSE, None, None>>
    /\ StateOf(pair_states, LastSignal).fvg_met
    /\ LastResponse.status = 200

(***************************************************************************)
(* C18. An fvg request with fvg_direction, gap_high and gap_low replaces   *)
(* the fvg slot by its own direction, time, price and gap, met or not      *)
(* before; an absorption request with a direction replaces the absorption  *)
(* slot likewise; a request of either kind lacking a required field        *)
(* leaves its slot unchanged.                                              *)
(***************************************************************************)
CompleteFvg(signal) ==
    /\ signal.signal_type = "fvg"
    /\ is_some(signal.candle_close)
    /\ is_some(signal.fvg_direction)
    /\ is_some(signal.gap_high)
    /\ is_some(signal.gap_low)

C18_LastWriteWins ==
    [][ LET signal == unwrap(last').signal
            before == StateOf(pair_states, signal)
            after == StateOf(pair_states', signal)
        IN  /\ CompleteFvg(signal) =>
                  FvgSlot(after) =
                      <<TRUE, signal.fvg_direction,
                        Some(FvgDetails(signal.candle_time, unwrap(signal.candle_close),
                                        unwrap(signal.gap_high), unwrap(signal.gap_low)))>>
            /\ (signal.signal_type = "fvg" /\ ~CompleteFvg(signal)) =>
                  FvgSlot(after) = FvgSlot(before)
            /\ ( /\ signal.signal_type = "absorption"
                 /\ is_some(signal.candle_close)
                 /\ is_some(signal.direction) ) =>
                  AbsorptionSlot(after) =
                      <<TRUE, signal.direction,
                        Some(ConditionDetails(signal.candle_time,
                                              unwrap(signal.candle_close),
                                              unwrap(signal.direction)))>>
            /\ ( /\ signal.signal_type = "absorption"
                 /\ ~(is_some(signal.candle_close) /\ is_some(signal.direction)) ) =>
                  AbsorptionSlot(after) = AbsorptionSlot(before)
      ]_vars

\* An fvg request was processed after a trade signal was emitted since the
\* last sweep, hence over a met fvg slot: the slot holds the request's values.
C18_Witness ==
    /\ is_some(last)
    /\ CompleteFvg(LastSignal)
    /\ Get(emitted_since_sweep, KeyOf(LastSignal), 0) > 0
    /\ StateOf(pair_states, LastSignal).sessions_sweep_met
    /\ unwrap(StateOf(pair_states, LastSignal).sessions_sweep_details).time
          # LastSignal.candle_time
    /\ unwrap(StateOf(pair_states, LastSignal).fvg_details).time = LastSignal.candle_time
    /\ StateOf(pair_states, LastSignal).fvg_direction = LastSignal.fvg_direction

(***************************************************************************)
(* C19. In every state of every correlator, at rest and right after a      *)
(* request is applied, a met sweep slot and a met divergence slot hold     *)
(* different directions; a processed sweep leaves the divergence slot not  *)
(* met; so with the four slots met direction_check holds.                  *)
(***************************************************************************)
DirectionsDiffer(ps) ==
    (ps.sessions_sweep_met /\ ps.cvd_met) =>
        /\ is_some(ps.sessions_sweep_direction)
        /\ is_some(ps.cvd_direction)
        /\ ps.sessions_sweep_direction # ps.cvd_direction

C19_SweepAndDivergenceDiffer ==
    [][ \A signal \in {unwrap(last').signal} :
        \A after \in {StateOf(pair_states', signal)} :
            /\ \A k \in DOMAIN pair_states' : DirectionsDiffer(pair_states'[k])
            /\ AllFourMet(after) => direction_check(after)
            /\ Processed(signal) =>
                  \A applied \in {AfterApply(pair_states, signal)} :
                      /\ DirectionsDiffer(applied)
                      /\ AllFourMet(applied) => direction_check(applied)
            /\ (signal.signal_type = "sessions_sweep" /\ is_some(signal.candle_close)) =>
                  ~after.cvd_met /\ after.cvd_direction = None
      ]_vars

\* The sweep and divergence slots are both met, with different directions,
\* while the fvg slot is not: it is the fvg that blocks the emission.
C19_Witness ==
    \E k \in DOMAIN pair_states :
        /\ pair_states[k].sessions_sweep_met
        /\ pair_states[k].cvd_met
        /\ pair_states[k].absorption_met
        /\ ~pair_states[k].fvg_met
        /\ pair_states[k].sessions_sweep_direction = Some("bearish")
        /\ pair_states[k].cvd_direction = Some("bullish")

(***************************************************************************)
(* C20. In every reachable state each of the four slots is consistent:     *)
(* its met flag is true exactly when its direction is present and exactly  *)
(* when its detail is present.                                             *)
(***************************************************************************)
SlotConsistent(slot) ==
    /\ slot[1] <=> is_some(slot[2])
    /\ slot[1] <=> is_some(slot[3])

C20_SlotsConsistent ==
    \A k \in DOMAIN pair_states :
        /\ SlotConsistent(SweepSlot(pair_states[k]))
        /\ SlotConsistent(FvgSlot(pair_states[k]))
        /\ SlotConsistent(AbsorptionSlot(pair_states[k]))
        /\ SlotConsistent(DivergenceSlot(pair_states[k]))

====
